---- MODULE Spec2Model ----
(***************************************************************************)
(* marine-object-counter-web: the sampling pipeline of src/cv.ts           *)
(* (processVideoInBrowser, getFrameForDisplay) and the component state of  *)
(* src/App.tsx that drives it.                                             *)
(*                                                                         *)
(* One step of the model is one browser task: an input event, or a media   *)
(* event of a video element, together with the promise continuations       *)
(* (microtasks) that run before the next task.                             *)
(***************************************************************************)
EXTENDS Integers, Sequences, FiniteSets, TLC

(***************************************************************************)
(* JavaScript numbers: IEEE 754 binary64 values, computed exactly.         *)
(* A finite value is (-1)^s * m * 2^e with m an odd natural number of at   *)
(* most Prec bits, held as little-endian limbs of LimbBits bits (<<>> is   *)
(* zero).  Every operation computes the exact result and rounds it to      *)
(* nearest, ties to even, as the hardware does.  The exponent range is not *)
(* bounded: no value of the model comes near overflow or underflow.        *)
(***************************************************************************)
Prec == 53
LimbBits == 14
Base == 2^LimbBits

Max2(a, b) == IF a >= b THEN a ELSE b
Min2(a, b) == IF a <= b THEN a ELSE b

Limb(a, i) == IF i <= Len(a) THEN a[i] ELSE 0

RECURSIVE BStrip(_)
BStrip(a) ==
    IF a = <<>> THEN a
    ELSE IF a[Len(a)] = 0 THEN BStrip(SubSeq(a, 1, Len(a) - 1)) ELSE a

RECURSIVE BAddFrom(_, _, _, _)
BAddFrom(a, b, i, c) ==
    IF i > Max2(Len(a), Len(b))
    THEN (IF c = 0 THEN <<>> ELSE <<c>>)
    ELSE LET s == Limb(a, i) + Limb(b, i) + c
         IN  <<s % Base>> \o BAddFrom(a, b, i + 1, s \div Base)

BAdd(a, b) == BAddFrom(a, b, 1, 0)

RECURSIVE BSubFrom(_, _, _, _)
BSubFrom(a, b, i, c) ==
    IF i > Len(a) THEN <<>>
    ELSE LET d == a[i] - Limb(b, i) - c
         IN  IF d < 0 THEN <<d + Base>> \o BSubFrom(a, b, i + 1, 1)
                      ELSE <<d>> \o BSubFrom(a, b, i + 1, 0)

\* a - b for a >= b
BSub(a, b) == BStrip(BSubFrom(a, b, 1, 0))

RECURSIVE BCmpFrom(_, _, _)
BCmpFrom(a, b, i) ==
    IF i = 0 THEN 0
    ELSE IF a[i] > b[i] THEN 1
    ELSE IF a[i] < b[i] THEN -1
    ELSE BCmpFrom(a, b, i - 1)

\* -1, 0, 1 as a < b, a = b, a > b
BCmp(a, b) ==
    IF Len(a) > Len(b) THEN 1
    ELSE IF Len(a) < Len(b) THEN -1
    ELSE BCmpFrom(a, b, Len(a))

RECURSIVE BMulSmallFrom(_, _, _, _)
BMulSmallFrom(a, d, i, c) ==
    IF i > Len(a) THEN (IF c = 0 THEN <<>> ELSE <<c>>)
    ELSE LET p == a[i] * d + c
         IN  <<p % Base>> \o BMulSmallFrom(a, d, i + 1, p \div Base)

BMulSmall(a, d) == IF d = 0 THEN <<>> ELSE BMulSmallFrom(a, d, 1, 0)

Zeros(n) == [i \in 1..n |-> 0]

RECURSIVE BMulFrom(_, _, _)
BMulFrom(a, b, j) ==
    IF j > Len(b) THEN <<>>
    ELSE BAdd(Zeros(j - 1) \o BMulSmall(a, b[j]), BMulFrom(a, b, j + 1))

BMul(a, b) == BStrip(BMulFrom(a, b, 1))

BShl(a, n) ==
    IF a = <<>> THEN a
    ELSE Zeros(n \div LimbBits) \o BMulSmall(a, 2^(n % LimbBits))

RECURSIVE BDivSmallFrom(_, _, _, _)
BDivSmallFrom(a, d, i, r) ==
    IF i = 0 THEN <<>>
    ELSE LET x == r * Base + a[i]
         IN  BDivSmallFrom(a, d, i - 1, x % d) \o <<x \div d>>

\* floor(a / 2^n) and whether a nonzero bit was shifted out
BShr(a, n) ==
    LET k    == Min2(n \div LimbBits, Len(a))
        hi   == SubSeq(a, k + 1, Len(a))
        lo   == SubSeq(a, 1, k)
        d    == 2^(n % LimbBits)
        lost == (\E i \in 1..k : lo[i] # 0) \/ (hi # <<>> /\ hi[1] % d # 0)
    IN  [q |-> BStrip(BDivSmallFrom(hi, d, Len(hi), 0)), sticky |-> lost]

RECURSIVE IntBitLen(_)
IntBitLen(n) == IF n = 0 THEN 0 ELSE 1 + IntBitLen(n \div 2)

BitLen(a) == IF a = <<>> THEN 0 ELSE LimbBits * (Len(a) - 1) + IntBitLen(a[Len(a)])

BOdd(a) == a # <<>> /\ a[1] % 2 = 1

RECURSIVE IntTz(_)
IntTz(n) == IF n % 2 = 1 THEN 0 ELSE 1 + IntTz(n \div 2)

RECURSIVE BTzFrom(_, _)
BTzFrom(a, i) == IF a[i] = 0 THEN LimbBits + BTzFrom(a, i + 1) ELSE IntTz(a[i])

\* trailing zero bits of a # 0
BTz(a) == BTzFrom(a, 1)

RECURSIVE BFromInt(_)
BFromInt(n) == IF n = 0 THEN <<>> ELSE <<n % Base>> \o BFromInt(n \div Base)

NaN == [k |-> "nan", s |-> 0, m |-> <<>>, e |-> 0]
Infinity(s) == [k |-> "inf", s |-> s, m |-> <<>>, e |-> 0]
Zero(s) == [k |-> "fin", s |-> s, m |-> <<>>, e |-> 0]

\* the value (-1)^s * m * 2^e with m # 0, m made odd
Reduce(s, m, e) ==
    LET t == BTz(m) IN [k |-> "fin", s |-> s, m |-> BShr(m, t).q, e |-> e + t]

\* (-1)^s * (m * 2^e, plus a little when sticky) rounded to Prec bits, ties to
\* even; a sticky m has more than Prec + 1 bits
Round(s, m, e, sticky) ==
    LET L == BitLen(m) IN
    IF L <= Prec THEN Reduce(s, m, e)
    ELSE LET d    == L - Prec
             t    == BShr(m, d - 1)
             q    == BShr(t.q, 1).q
             rbit == BOdd(t.q)
             st   == t.sticky \/ sticky
             up   == rbit /\ (st \/ BOdd(q))
         IN  Reduce(s, IF up THEN BAdd(q, <<1>>) ELSE q, e + d)

\* a number from an integer of the model
Num(n) == IF n = 0 THEN Zero(0)
          ELSE IF n < 0 THEN Reduce(1, BFromInt(-n), 0)
          ELSE Reduce(0, BFromInt(n), 0)

IsNaN(x) == x.k = "nan"
IsZero(x) == x.k = "fin" /\ x.m = <<>>

\* -1, 0, 1 comparing the magnitudes of two finite nonzero numbers
MagCmp(x, y) ==
    LET tx == BitLen(x.m) + x.e
        ty == BitLen(y.m) + y.e
        e0 == Min2(x.e, y.e)
    IN  IF tx > ty THEN 1
        ELSE IF tx < ty THEN -1
        ELSE BCmp(BShl(x.m, x.e - e0), BShl(y.m, y.e - e0))

\* -1, 0, 1 comparing two numbers that are not NaN
Cmp(x, y) ==
    LET sgn(z) == IF IsZero(z) THEN 0 ELSE IF z.s = 1 THEN -1 ELSE 1 IN
    IF sgn(x) # sgn(y) THEN (IF sgn(x) < sgn(y) THEN -1 ELSE 1)
    ELSE IF sgn(x) = 0 THEN 0
    ELSE LET mag == IF x.k = "inf" /\ y.k = "inf" THEN 0
                    ELSE IF x.k = "inf" THEN 1
                    ELSE IF y.k = "inf" THEN -1
                    ELSE MagCmp(x, y)
         IN  sgn(x) * mag

Lt(x, y) == ~IsNaN(x) /\ ~IsNaN(y) /\ Cmp(x, y) < 0
Le(x, y) == ~IsNaN(x) /\ ~IsNaN(y) /\ Cmp(x, y) <= 0
Gt(x, y) == Lt(y, x)
Ge(x, y) == Le(y, x)
\* === on numbers
NumEq(x, y) == ~IsNaN(x) /\ ~IsNaN(y) /\ Cmp(x, y) = 0

\* x + y
Add(x, y) ==
    IF IsNaN(x) \/ IsNaN(y) THEN NaN
    ELSE IF x.k = "inf" THEN (IF y.k = "inf" /\ y.s # x.s THEN NaN ELSE x)
    ELSE IF y.k = "inf" THEN y
    ELSE IF IsZero(x) /\ IsZero(y) THEN Zero(IF x.s = 1 /\ y.s = 1 THEN 1 ELSE 0)
    ELSE IF IsZero(x) THEN y
    ELSE IF IsZero(y) THEN x
    ELSE LET e0 == Min2(x.e, y.e)
             mx == BShl(x.m, x.e - e0)
             my == BShl(y.m, y.e - e0)
             c  == BCmp(mx, my)
         IN  IF x.s = y.s THEN Round(x.s, BAdd(mx, my), e0, FALSE)
             ELSE IF c = 0 THEN Zero(0)
             ELSE IF c > 0 THEN Round(x.s, BSub(mx, my), e0, FALSE)
             ELSE Round(y.s, BSub(my, mx), e0, FALSE)

\* x * y
Mul(x, y) ==
    LET s == (x.s + y.s) % 2 IN
    IF IsNaN(x) \/ IsNaN(y) THEN NaN
    ELSE IF x.k = "inf" \/ y.k = "inf"
         THEN (IF IsZero(x) \/ IsZero(y) THEN NaN ELSE Infinity(s))
    ELSE IF IsZero(x) \/ IsZero(y) THEN Zero(s)
    ELSE Round(s, BMul(x.m, y.m), x.e + y.e, FALSE)

\* the largest d in lo..hi with b * d <= r, where b * lo <= r
RECURSIVE QuotDigit(_, _, _, _)
QuotDigit(r, b, lo, hi) ==
    IF lo = hi THEN lo
    ELSE LET mid == (lo + hi + 1) \div 2
         IN  IF BCmp(BMulSmall(b, mid), r) <= 0
             THEN QuotDigit(r, b, mid, hi)
             ELSE QuotDigit(r, b, lo, mid - 1)

\* long division of the limbs n[1..i] below the remainder r by b # 0: the
\* quotient and the remainder
RECURSIVE BDivFrom(_, _, _, _)
BDivFrom(n, b, i, r) ==
    IF i = 0 THEN [q |-> <<>>, r |-> r]
    ELSE LET r1   == BStrip(<<n[i]>> \o r)
             d    == QuotDigit(r1, b, 0, Base - 1)
             rest == BDivFrom(n, b, i - 1, BSub(r1, BMulSmall(b, d)))
         IN  [q |-> rest.q \o <<d>>, r |-> rest.r]

BDiv(n, b) ==
    LET d == BDivFrom(n, b, Len(n), <<>>) IN [q |-> BStrip(d.q), r |-> d.r]

\* x / y
Div(x, y) ==
    LET s == (x.s + y.s) % 2 IN
    IF IsNaN(x) \/ IsNaN(y) THEN NaN
    ELSE IF x.k = "inf" THEN (IF y.k = "inf" THEN NaN ELSE Infinity(s))
    ELSE IF y.k = "inf" THEN Zero(s)
    ELSE IF IsZero(y) THEN (IF IsZero(x) THEN NaN ELSE Infinity(s))
    ELSE IF IsZero(x) THEN Zero(s)
    ELSE LET k == Max2(0, Prec + 3 + BitLen(y.m) - BitLen(x.m))
             d == BDiv(BShl(x.m, k), y.m)
         IN  Round(s, d.q, x.e - y.e - k, d.r # <<>>)

\* Math.max(x, y)
MathMax(x, y) ==
    IF IsNaN(x) \/ IsNaN(y) THEN NaN
    ELSE IF IsZero(x) /\ IsZero(y) THEN Zero(IF x.s = 1 /\ y.s = 1 THEN 1 ELSE 0)
    ELSE IF Cmp(x, y) >= 0 THEN x ELSE y

\* Math.min(x, y)
MathMin(x, y) ==
    IF IsNaN(x) \/ IsNaN(y) THEN NaN
    ELSE IF IsZero(x) /\ IsZero(y) THEN Zero(IF x.s = 1 \/ y.s = 1 THEN 1 ELSE 0)
    ELSE IF Cmp(x, y) <= 0 THEN x ELSE y

IsFinite(x) == x.k = "fin"

(***************************************************************************)
(* The videos a user can select, as the decoder presents them: a duration  *)
(* in seconds and, at every playback position, a raster of gray levels     *)
(* (what imread and cvtColor hand to threshold).                           *)
(***************************************************************************)
NoFile == 0
Files == {1, 2, 3, 4, 5}

\* video.duration once the metadata of the file has loaded
VideoDuration(f) ==
    CASE f = 1 -> Num(10)
      [] f = 2 -> Num(1)
      [] f = 3 -> Num(120)
      [] f = 5 -> Num(1)
      [] OTHER -> Num(0)

\* the gray levels of the frame the decoder shows at position t; file 5 has
\* no picture (videoWidth and videoHeight are 0)
FrameGray(f, t) ==
    IF f = 5 THEN <<>>
    ELSE IF Lt(t, Div(VideoDuration(f), Num(2)))
    THEN (IF f = 1 THEN <<0, 50, 51, 200>> ELSE <<255, 50, 49, 0>>)
    ELSE (IF f = 1 THEN <<0, 0, 50, 51>> ELSE <<60, 60, 60, 60>>)

(***************************************************************************)
(* What the number inputs of the page can hold after parseInt/parseFloat:  *)
(* a number, or NaN for an emptied field.                                  *)
(***************************************************************************)
Depths == {Num(100), Num(6), Num(1), Num(0), NaN}
Scales == {Num(5), Num(1), Num(0)}
Thresholds == {Num(50), Num(0)}
Trims == {Num(0), Num(-5), Num(5)}
ViewerModes == {"depth", "frame", "seconds"}

\* what the user picks and types in a session on the page
SessionFiles == {1, 3}
SessionDepths == {Num(100), Num(0)}
SessionScales == {Num(5), Num(0)}
SessionTrims == {Num(0), Num(-1)}
SessionViewerValues == {Num(0), Num(50), Num(200), NaN}

\* how many inputs (a file, a setting, a click on a button) the user makes
\* in one session
MaxInputs == 5

VARIABLES
    \* App.tsx: the component's state
    isCvReady, videoFile, status, progress, isProcessing, results,
    videoDuration, depth, scale, threshold, trim, viewerMode, viewerValue,
    \* the two canvases of the frame viewer
    canvases,
    \* cv.ts: the latest invocation of processVideoInBrowser, and the calls
    \* it has made (seeks, samples, onProgress), in order
    proc, procLog,
    \* cv.ts: the latest invocation of getFrameForDisplay, and its seeks
    view, viewLog,
    \* inputs made so far
    inputs,
    \* cv.ts: an invocation of processVideoInBrowser made beside the page's
    \* own, by another caller with the same arguments
    twin

appVars == <<isCvReady, videoFile, status, progress, isProcessing, results,
             videoDuration, depth, scale, threshold, trim, viewerMode,
             viewerValue, canvases, inputs>>
vars == <<appVars, proc, procLog, view, viewLog, twin>>

\* an invocation of processVideoInBrowser that has not happened
NoProc ==
    [pc |-> "none", promise |-> "none", error |-> "none", url |-> "none",
     file |-> NoFile, depth |-> NaN, scale |-> NaN, threshold |-> NaN,
     trim |-> NaN, duration |-> NaN, seeking |-> NaN, results |-> <<>>,
     currentTime |-> NaN, timeInterval |-> NaN]

\* an invocation of getFrameForDisplay that has not happened
NoView ==
    [pc |-> "none", promise |-> "none", error |-> "none", url |-> "none",
     file |-> NoFile, time |-> NaN, threshold |-> NaN, duration |-> NaN,
     seeking |-> NaN]

\* the viewer's canvases as they are mounted, and while the viewer is not shown
BlankCanvases == [original |-> <<>>, binarized |-> <<>>]

\* App.tsx: the state of the component when it mounts
Init ==
    /\ isCvReady = FALSE
    /\ videoFile = NoFile
    /\ status = "initializing"
    /\ progress = Num(0)
    /\ isProcessing = FALSE
    /\ results = <<>>
    /\ videoDuration = Num(0)
    /\ depth = Num(100)
    /\ scale = Num(5)
    /\ threshold = Num(50)
    /\ trim = Num(0)
    /\ viewerMode = "depth"
    /\ viewerValue = Num(0)
    /\ canvases = BlankCanvases
    /\ inputs = 0
    /\ proc = NoProc
    /\ procLog = <<>>
    /\ view = NoView
    /\ viewLog = <<>>
    /\ twin = NoProc

(***************************************************************************)
(* App.tsx: the page                                                       *)
(***************************************************************************)

\* useEffect: OpenCV has finished loading
CheckCv ==
    /\ ~isCvReady
    /\ isCvReady' = TRUE
    /\ status' = "selectVideo"
    /\ UNCHANGED <<videoFile, progress, isProcessing, results, videoDuration,
                   depth, scale, threshold, trim, viewerMode, viewerValue,
                   canvases, inputs, proc, procLog, view, viewLog>>
    /\ UNCHANGED twin

\* the inputs of the controls are disabled until OpenCV is ready and while a
\* video is processed
ControlsEnabled == isCvReady /\ ~isProcessing

\* handleFileChange, had it kept the results of the file selected before
handleFileChangeKeepsResults(file) ==
    /\ ControlsEnabled /\ inputs < MaxInputs
    /\ videoFile' = file
    /\ status' = "selected"
    /\ inputs' = inputs + 1
    /\ UNCHANGED <<isCvReady, progress, isProcessing, videoDuration, depth,
                   scale, threshold, trim, viewerMode, viewerValue,
                   results, canvases, proc, procLog, view, viewLog>>
    /\ UNCHANGED twin

handleFileChange(file) ==
    /\ ControlsEnabled /\ inputs < MaxInputs
    /\ videoFile' = file
    /\ results' = <<>>
    /\ canvases' = BlankCanvases
    /\ status' = "selected"
    /\ inputs' = inputs + 1
    /\ UNCHANGED <<isCvReady, progress, isProcessing, videoDuration, depth,
                   scale, threshold, trim, viewerMode, viewerValue,
                   proc, procLog, view, viewLog>>
    /\ UNCHANGED twin

setDepth(v) ==
    /\ ControlsEnabled /\ inputs < MaxInputs
    /\ depth' = v
    /\ inputs' = inputs + 1
    /\ UNCHANGED <<isCvReady, videoFile, status, progress, isProcessing,
                   results, videoDuration, scale, threshold, trim, viewerMode,
                   viewerValue, canvases, proc, procLog, view, viewLog>>
    /\ UNCHANGED twin

setScale(v) ==
    /\ ControlsEnabled /\ inputs < MaxInputs
    /\ scale' = v
    /\ inputs' = inputs + 1
    /\ UNCHANGED <<isCvReady, videoFile, status, progress, isProcessing,
                   results, videoDuration, depth, threshold, trim, viewerMode,
                   viewerValue, canvases, proc, procLog, view, viewLog>>
    /\ UNCHANGED twin

setThreshold(v) ==
    /\ ControlsEnabled /\ inputs < MaxInputs
    /\ threshold' = v
    /\ inputs' = inputs + 1
    /\ UNCHANGED <<isCvReady, videoFile, status, progress, isProcessing,
                   results, videoDuration, depth, scale, trim, viewerMode,
                   viewerValue, canvases, proc, procLog, view, viewLog>>
    /\ UNCHANGED twin

setTrim(v) ==
    /\ ControlsEnabled /\ inputs < MaxInputs
    /\ trim' = v
    /\ inputs' = inputs + 1
    /\ UNCHANGED <<isCvReady, videoFile, status, progress, isProcessing,
                   results, videoDuration, depth, scale, threshold, viewerMode,
                   viewerValue, canvases, proc, procLog, view, viewLog>>
    /\ UNCHANGED twin

\* the frame viewer is rendered only while there are results
ViewerShown == Len(results) > 0

setViewerMode(v) ==
    /\ ViewerShown /\ inputs < MaxInputs
    /\ viewerMode' = v
    /\ inputs' = inputs + 1
    /\ UNCHANGED <<isCvReady, videoFile, status, progress, isProcessing,
                   results, videoDuration, depth, scale, threshold, trim,
                   viewerValue, canvases, proc, procLog, view, viewLog>>
    /\ UNCHANGED twin

setViewerValue(v) ==
    /\ ViewerShown /\ inputs < MaxInputs
    /\ viewerValue' = v
    /\ inputs' = inputs + 1
    /\ UNCHANGED <<isCvReady, videoFile, status, progress, isProcessing,
                   results, videoDuration, depth, scale, threshold, trim,
                   viewerMode, canvases, proc, procLog, view, viewLog>>
    /\ UNCHANGED twin

(***************************************************************************)
(* cv.ts: processVideoInBrowser, driven by App.tsx's handleProcessVideo    *)
(***************************************************************************)

\* cv.threshold(gray, binary, threshold, 255, cv.THRESH_BINARY)
Binarize(gray, thresh) ==
    [i \in DOMAIN gray |-> IF Gt(Num(gray[i]), thresh) THEN 255 ELSE 0]

\* cv.countNonZero(binary)
CountNonZero(binary) == Cardinality({i \in DOMAIN binary : binary[i] # 0})

\* WhiteRatio, had it kept the ratio within [0, 1]
WhiteRatioClamped(gray, thresh, trm) ==
    LET binary      == Binarize(gray, thresh)
        totalPixels == Len(binary)
        whitePixels == Add(Num(CountNonZero(binary)), trm)
    IN  IF totalPixels > 0
        THEN MathMin(MathMax(Num(0), Div(whitePixels, Num(totalPixels))), Num(1))
        ELSE Num(0)

\* the white pixel ratio of one frame
WhiteRatio(gray, thresh, trm) ==
    LET binary      == Binarize(gray, thresh)
        totalPixels == Len(binary)
        whitePixels == Add(Num(CountNonZero(binary)), trm)
    IN  IF totalPixels > 0 THEN Div(whitePixels, Num(totalPixels)) ELSE Num(0)

\* the depth recorded with the sample taken at currentTime
SampleDepth(currentTime, duration, dpth) == Mul(Div(currentTime, duration), dpth)

\* SampleProgress, had it reported a percentage (0 to 100) where the callback
\* takes a fraction
SamplePercent(currentTime, duration) ==
    Mul(Div(currentTime, duration), Num(100))

\* the value given to onProgress after the sample taken at currentTime
SampleProgress(currentTime, duration) == Div(currentTime, duration)

Ev(e, v) == [ev |-> e, v |-> v]

\* handleProcessVideo after the await: the run has resolved with res
ProcessResolved(res) ==
    /\ results' = res.ratios
    /\ videoDuration' = res.duration
    /\ status' = "completed"
    /\ isProcessing' = FALSE
    /\ progress' = Num(0)

\* handleProcessVideo after the await: the run has rejected with err
ProcessRejected(err) ==
    /\ status' = err
    /\ isProcessing' = FALSE
    /\ progress' = Num(0)
    /\ UNCHANGED <<results, videoDuration>>

\* the click on the process button, up to the first await: ctxOk is whether
\* canvas.getContext('2d') returns a context
handleProcessVideo(ctxOk) ==
    /\ isCvReady /\ videoFile # NoFile /\ ~isProcessing
    /\ inputs < MaxInputs
    /\ inputs' = inputs + 1
    /\ results' = <<>>
    /\ canvases' = BlankCanvases
    /\ progress' = Num(0)
    /\ procLog' = <<>>
    /\ IF ctxOk
       THEN /\ proc' = [NoProc EXCEPT !.pc = "loading", !.promise = "pending",
                                      !.url = "live", !.file = videoFile,
                                      !.depth = depth, !.scale = scale,
                                      !.threshold = threshold, !.trim = trim]
            /\ isProcessing' = TRUE
            /\ status' = "processing"
       ELSE /\ proc' = [NoProc EXCEPT !.pc = "done", !.promise = "rejected",
                                      !.error = "error:context",
                                      !.url = "live", !.file = videoFile,
                                      !.depth = depth, !.scale = scale,
                                      !.threshold = threshold, !.trim = trim]
            /\ isProcessing' = FALSE
            /\ status' = "error:context"
    /\ UNCHANGED <<isCvReady, videoFile, videoDuration, depth, scale,
                   threshold, trim, viewerMode, viewerValue, view,
                   viewLog>>
    /\ UNCHANGED twin

\* ProcLoop, had the loop not awaited seeked: the frame is drawn and its
\* sample appended as soon as the seek is issued
ProcLoopReadsEarly(p, lg, prog) ==
    IF Lt(p.currentTime, p.duration)
    THEN /\ proc' = [p EXCEPT
                       !.pc = "seeking", !.seeking = p.currentTime,
                       !.results = Append(p.results,
                           [ratio |-> WhiteRatio(FrameGray(p.file, p.currentTime),
                                                 p.threshold, p.trim),
                            depth |-> SampleDepth(p.currentTime, p.duration,
                                                  p.depth)])]
         /\ procLog' = lg \o <<Ev("seek", p.currentTime),
                                Ev("sample", p.currentTime)>>
         /\ progress' = prog
         /\ status' = "progress"
         /\ UNCHANGED <<isProcessing, results, videoDuration>>
    ELSE /\ proc' = [p EXCEPT !.pc = "done", !.promise = "resolved",
                              !.url = "revoked"]
         /\ procLog' = Append(lg, Ev("progress", Num(1)))
         /\ ProcessResolved([ratios |-> p.results, duration |-> p.duration])

\* the head of the sampling loop, entered with the run as p, its calls so far
\* as lg and the last value given to onProgress as prog: the next seek, or
\* the end of the run
ProcLoop(p, lg, prog) ==
    IF Lt(p.currentTime, p.duration)
    THEN /\ proc' = [p EXCEPT !.pc = "seeking", !.seeking = p.currentTime]
         /\ procLog' = Append(lg, Ev("seek", p.currentTime))
         /\ progress' = prog
         /\ status' = "progress"
         /\ UNCHANGED <<isProcessing, results, videoDuration>>
    ELSE /\ proc' = [p EXCEPT !.pc = "done", !.promise = "resolved",
                              !.url = "revoked"]
         /\ procLog' = Append(lg, Ev("progress", Num(1)))
         /\ ProcessResolved([ratios |-> p.results, duration |-> p.duration])

\* ProcReject, had the handler not returned with the rejection: it goes on
\* to onProgress(0) and to the first seek of the loop
ProcRejectNoReturn(p, err) ==
    /\ proc' = [p EXCEPT !.pc = "seeking", !.promise = "rejected",
                         !.error = err, !.currentTime = Num(0),
                         !.seeking = Num(0)]
    /\ procLog' = <<Ev("progress", Num(0)), Ev("seek", Num(0))>>
    /\ ProcessRejected(err)

\* ProcReject, had the checks of the configuration come after onProgress(0)
ProcRejectAfterProgress(p, err) ==
    /\ proc' = [p EXCEPT !.pc = "done", !.promise = "rejected", !.error = err]
    /\ procLog' = <<Ev("progress", Num(0))>>
    /\ ProcessRejected(err)

\* the run rejects with err from inside onloadedmetadata
ProcReject(p, err) ==
    /\ proc' = [p EXCEPT !.pc = "done", !.promise = "rejected", !.error = err]
    /\ UNCHANGED procLog
    /\ ProcessRejected(err)

\* video.onloadedmetadata of the run
ProcOnLoadedMetadata ==
    /\ proc.pc = "loading"
    /\ LET duration     == VideoDuration(proc.file)
           totalSamples == Div(proc.depth, proc.scale)
           timeInterval == Div(duration, totalSamples)
           p            == [proc EXCEPT !.duration = duration,
                                        !.timeInterval = timeInterval,
                                        !.currentTime = Num(0)]
       IN  IF Le(totalSamples, Num(0))
           THEN ProcReject([proc EXCEPT !.duration = duration], "error:samples")
           ELSE IF Le(timeInterval, Num(0))
           THEN ProcReject([proc EXCEPT !.duration = duration,
                                        !.timeInterval = timeInterval],
                           "error:interval")
           ELSE ProcLoop(p, <<Ev("progress", Num(0))>>, Num(0))
    /\ UNCHANGED <<isCvReady, videoFile, depth, scale, threshold, trim,
                   viewerMode, viewerValue, canvases, inputs, view, viewLog>>
    /\ UNCHANGED twin

\* ProcOnSeeked, had the loop reported progress only at its two ends
ProcOnSeekedSilent(fails) ==
    /\ proc.pc = "seeking"
    /\ IF fails
       THEN /\ proc' = [proc EXCEPT !.pc = "threw"]
            /\ UNCHANGED <<procLog, progress, status, isProcessing, results,
                           videoDuration>>
       ELSE LET t          == proc.currentTime
                whiteRatio == WhiteRatio(FrameGray(proc.file, proc.seeking),
                                         proc.threshold, proc.trim)
                sample     == [ratio |-> whiteRatio,
                               depth |-> SampleDepth(t, proc.duration, proc.depth)]
                p          == [proc EXCEPT
                                 !.results = Append(proc.results, sample),
                                 !.currentTime = Add(t, proc.timeInterval)]
            IN  ProcLoop(p, procLog \o <<Ev("sample", t)>>, progress)
    /\ UNCHANGED <<isCvReady, videoFile, depth, scale, threshold, trim,
                   viewerMode, viewerValue, canvases, inputs, view, viewLog>>
    /\ UNCHANGED twin

\* video.onseeked of the run: the body of the loop after the await, then the
\* head of the loop again; fails is whether drawing or analysing the frame
\* throws
ProcOnSeeked(fails) ==
    /\ proc.pc = "seeking"
    /\ IF fails
       THEN /\ proc' = [proc EXCEPT !.pc = "threw"]
            /\ UNCHANGED <<procLog, progress, status, isProcessing, results,
                           videoDuration>>
       ELSE LET t          == proc.currentTime
                whiteRatio == WhiteRatio(FrameGray(proc.file, proc.seeking),
                                         proc.threshold, proc.trim)
                sample     == [ratio |-> whiteRatio,
                               depth |-> SampleDepth(t, proc.duration, proc.depth)]
                prog       == SampleProgress(t, proc.duration)
                p          == [proc EXCEPT
                                 !.results = Append(proc.results, sample),
                                 !.currentTime = Add(t, proc.timeInterval)]
            IN  ProcLoop(p, procLog \o <<Ev("sample", t), Ev("progress", prog)>>,
                         prog)
    /\ UNCHANGED <<isCvReady, videoFile, depth, scale, threshold, trim,
                   viewerMode, viewerValue, canvases, inputs, view, viewLog>>
    /\ UNCHANGED twin

\* ProcOnError, had the rejection carried the series gathered so far to the
\* page
ProcOnErrorPartial ==
    /\ proc.pc \in {"loading", "seeking"}
    /\ proc' = [proc EXCEPT !.pc = "failed", !.promise = "rejected",
                            !.error = "error:load", !.url = "revoked"]
    /\ UNCHANGED procLog
    /\ results' = proc.results
    /\ status' = "error:load"
    /\ isProcessing' = FALSE
    /\ progress' = Num(0)
    /\ UNCHANGED <<isCvReady, videoFile, videoDuration, depth, scale, threshold,
                   trim, viewerMode, viewerValue, canvases, inputs, view,
                   viewLog>>
    /\ UNCHANGED twin

\* video.onerror of the run: the decoder gives up on the file, which ends
\* the events of this video element
ProcOnError ==
    /\ proc.pc \in {"loading", "seeking"}
    /\ proc' = [proc EXCEPT !.pc = "failed", !.promise = "rejected",
                            !.error = "error:load", !.url = "revoked"]
    /\ UNCHANGED procLog
    /\ ProcessRejected("error:load")
    /\ UNCHANGED <<isCvReady, videoFile, depth, scale, threshold, trim,
                   viewerMode, viewerValue, canvases, inputs, view, viewLog>>
    /\ UNCHANGED twin

(***************************************************************************)
(* cv.ts: getFrameForDisplay, driven by App.tsx's handleShowImage          *)
(***************************************************************************)

\* the time the viewer asks for
TargetTime(mode, value, dpth, scl, duration) ==
    LET totalSamples == Div(dpth, scl) IN
    CASE mode = "depth"   -> Mul(Div(value, dpth), duration)
      [] mode = "frame"   -> Mul(Div(value, totalSamples), duration)
      [] mode = "seconds" -> value

\* the range check of handleShowImage
OutOfRange(targetTime, duration) ==
    Lt(targetTime, Num(0)) \/ Gt(targetTime, duration)

\* a capture may be started while none waits for its video (the model keeps
\* the latest invocation only)
ViewIdle == view.pc \notin {"loading", "seeking"}

\* the click on the show button, up to the await
handleShowImage(ctxOk) ==
    /\ ViewerShown /\ videoFile # NoFile /\ ViewIdle
    /\ inputs < MaxInputs
    /\ inputs' = inputs + 1
    /\ LET targetTime == TargetTime(viewerMode, viewerValue, depth, scale,
                                    videoDuration)
           call       == [NoView EXCEPT !.url = "live", !.file = videoFile,
                                        !.time = targetTime,
                                        !.threshold = threshold]
       IN  IF OutOfRange(targetTime, videoDuration)
           THEN /\ status' = "error:range"
                /\ UNCHANGED <<view, viewLog>>
           ELSE IF ctxOk
           THEN /\ status' = "generating"
                /\ view' = [call EXCEPT !.pc = "loading", !.promise = "pending"]
                /\ viewLog' = <<>>
           ELSE /\ status' = "error:context"
                /\ view' = [call EXCEPT !.pc = "done", !.promise = "rejected",
                                        !.error = "error:context"]
                /\ viewLog' = <<>>
    /\ UNCHANGED <<isCvReady, videoFile, progress, isProcessing, results,
                   videoDuration, depth, scale, threshold, trim, viewerMode,
                   viewerValue, canvases, proc, procLog>>
    /\ UNCHANGED twin

\* ViewOnLoadedMetadata, had cv.ts kept one video element for all its
\* invocations: the seek of the capture moves the video of the series run
ViewOnLoadedMetadataSharedVideo ==
    /\ view.pc = "loading"
    /\ LET duration == VideoDuration(view.file)
           t        == MathMin(MathMax(Num(0), view.time), duration)
       IN  IF IsFinite(t)
           THEN /\ view' = [view EXCEPT !.pc = "seeking", !.duration = duration,
                                        !.seeking = t]
                /\ viewLog' = Append(viewLog, Ev("seek", t))
                /\ proc' = [proc EXCEPT !.seeking = t]
           ELSE /\ view' = [view EXCEPT !.pc = "threw", !.duration = duration]
                /\ UNCHANGED <<viewLog, proc>>
    /\ UNCHANGED <<appVars, procLog>>
    /\ UNCHANGED twin

\* video.onloadedmetadata of the capture; the media element refuses a
\* position that is not finite with a TypeError
ViewOnLoadedMetadata ==
    /\ view.pc = "loading"
    /\ LET duration == VideoDuration(view.file)
           t        == MathMin(MathMax(Num(0), view.time), duration)
       IN  IF IsFinite(t)
           THEN /\ view' = [view EXCEPT !.pc = "seeking", !.duration = duration,
                                        !.seeking = t]
                /\ viewLog' = Append(viewLog, Ev("seek", t))
           ELSE /\ view' = [view EXCEPT !.pc = "threw", !.duration = duration]
                /\ UNCHANGED viewLog
    /\ UNCHANGED <<appVars, proc, procLog>>
    /\ UNCHANGED twin

\* video.onseeked of the capture, and handleShowImage after the await; fails
\* is whether drawing or analysing the frame throws
ViewOnSeeked(fails) ==
    /\ view.pc = "seeking"
    /\ IF fails
       THEN /\ view' = [view EXCEPT !.pc = "threw"]
            /\ UNCHANGED <<status, canvases>>
       ELSE LET gray == FrameGray(view.file, view.seeking) IN
            /\ view' = [view EXCEPT !.pc = "done", !.promise = "resolved",
                                    !.url = "revoked"]
            /\ IF ViewerShown
               THEN /\ canvases' = [original |-> gray,
                                    binarized |-> Binarize(gray, view.threshold)]
                    /\ status' = "shown"
               ELSE UNCHANGED <<status, canvases>>
    /\ UNCHANGED <<isCvReady, videoFile, progress, isProcessing, results,
                   videoDuration, depth, scale, threshold, trim, viewerMode,
                   viewerValue, inputs, proc, procLog, viewLog>>
    /\ UNCHANGED twin

\* ViewOnError, had the page dropped its results when a capture fails
ViewOnErrorDropsResults ==
    /\ view.pc \in {"loading", "seeking"}
    /\ view' = [view EXCEPT !.pc = "failed", !.promise = "rejected",
                            !.error = "error:load", !.url = "revoked"]
    /\ status' = "error:load"
    /\ results' = <<>>
    /\ UNCHANGED <<isCvReady, videoFile, progress, isProcessing,
                   videoDuration, depth, scale, threshold, trim, viewerMode,
                   viewerValue, canvases, inputs, proc, procLog, viewLog>>
    /\ UNCHANGED twin

\* video.onerror of the capture
ViewOnError ==
    /\ view.pc \in {"loading", "seeking"}
    /\ view' = [view EXCEPT !.pc = "failed", !.promise = "rejected",
                            !.error = "error:load", !.url = "revoked"]
    /\ status' = "error:load"
    /\ UNCHANGED <<isCvReady, videoFile, progress, isProcessing, results,
                   videoDuration, depth, scale, threshold, trim, viewerMode,
                   viewerValue, canvases, inputs, proc, procLog, viewLog>>
    /\ UNCHANGED twin

(***************************************************************************)
(* The page in use                                                         *)
(***************************************************************************)
Next ==
    \/ CheckCv
    \/ \E file \in SessionFiles : handleFileChange(file)
    \/ \E v \in SessionDepths : setDepth(v)
    \/ \E v \in SessionScales : setScale(v)
    \/ \E v \in Thresholds : setThreshold(v)
    \/ \E v \in SessionTrims : setTrim(v)
    \/ \E v \in ViewerModes : setViewerMode(v)
    \/ \E v \in SessionViewerValues : setViewerValue(v)
    \/ \E ctxOk \in BOOLEAN : handleProcessVideo(ctxOk)
    \/ ProcOnLoadedMetadata
    \/ \E fails \in BOOLEAN : ProcOnSeeked(fails)
    \/ ProcOnError
    \/ \E ctxOk \in BOOLEAN : handleShowImage(ctxOk)
    \/ ViewOnLoadedMetadata
    \/ \E fails \in BOOLEAN : ViewOnSeeked(fails)
    \/ ViewOnError

Spec == Init /\ [][Next]_vars

(***************************************************************************)
(* One configuration, processed: the page with OpenCV ready, a video       *)
(* selected and any settings, and then only the process button, twice at   *)
(* most                                                                    *)
(***************************************************************************)
RunInit ==
    /\ isCvReady = TRUE
    /\ videoFile \in Files
    /\ status = "selected"
    /\ progress = Num(0)
    /\ isProcessing = FALSE
    /\ results = <<>>
    /\ videoDuration = Num(0)
    /\ depth \in Depths
    /\ scale \in Scales
    /\ threshold \in Thresholds
    /\ trim \in Trims
    /\ viewerMode = "depth"
    /\ viewerValue = Num(0)
    /\ canvases = BlankCanvases
    /\ inputs = MaxInputs - 2
    /\ proc = NoProc
    /\ procLog = <<>>
    /\ view = NoView
    /\ viewLog = <<>>
    /\ twin = NoProc

RunNext ==
    \/ \E ctxOk \in BOOLEAN : handleProcessVideo(ctxOk)
    \/ ProcOnLoadedMetadata
    \/ \E fails \in BOOLEAN : ProcOnSeeked(fails)
    \/ ProcOnError

RunSpec == RunInit /\ [][RunNext]_vars


(***************************************************************************)
(* cv.ts: processVideoInBrowser called a second time, beside the page's    *)
(* own call, with the same arguments.  The second invocation has its own   *)
(* video element, object URL, canvas and results array (cv.ts 213-224);    *)
(* its onProgress callback is another caller's and is not recorded.        *)
(***************************************************************************)
pageVars == <<appVars, proc, procLog, view, viewLog>>

\* the second caller calls processVideoInBrowser with the page's file and
\* settings; ctxOk is whether canvas.getContext('2d') returns a context
TwinStart(ctxOk) ==
    /\ isCvReady /\ videoFile # NoFile
    /\ twin.pc = "none"
    /\ twin' = [NoProc EXCEPT
                  !.pc = IF ctxOk THEN "loading" ELSE "done",
                  !.promise = IF ctxOk THEN "pending" ELSE "rejected",
                  !.error = IF ctxOk THEN "none" ELSE "error:context",
                  !.url = "live", !.file = videoFile, !.depth = depth,
                  !.scale = scale, !.threshold = threshold, !.trim = trim]
    /\ UNCHANGED pageVars

\* the head of the sampling loop of the second invocation
TwinLoop(p) ==
    IF Lt(p.currentTime, p.duration)
    THEN twin' = [p EXCEPT !.pc = "seeking", !.seeking = p.currentTime]
    ELSE twin' = [p EXCEPT !.pc = "done", !.promise = "resolved",
                           !.url = "revoked"]

\* video.onloadedmetadata of the second invocation
TwinOnLoadedMetadata ==
    /\ twin.pc = "loading"
    /\ LET duration     == VideoDuration(twin.file)
           totalSamples == Div(twin.depth, twin.scale)
           timeInterval == Div(duration, totalSamples)
       IN  IF Le(totalSamples, Num(0))
           THEN twin' = [twin EXCEPT !.duration = duration, !.pc = "done",
                                     !.promise = "rejected",
                                     !.error = "error:samples"]
           ELSE IF Le(timeInterval, Num(0))
           THEN twin' = [twin EXCEPT !.duration = duration,
                                     !.timeInterval = timeInterval,
                                     !.pc = "done", !.promise = "rejected",
                                     !.error = "error:interval"]
           ELSE TwinLoop([twin EXCEPT !.duration = duration,
                                      !.timeInterval = timeInterval,
                                      !.currentTime = Num(0)])
    /\ UNCHANGED pageVars

\* TwinOnSeeked, had the results array been declared once for the module
\* and not once for every invocation: the sample goes to the array the
\* page's run fills
TwinOnSeekedSharedResults(fails) ==
    /\ twin.pc = "seeking"
    /\ IF fails
       THEN twin' = [twin EXCEPT !.pc = "threw"]
       ELSE LET t      == twin.currentTime
                sample == [ratio |-> WhiteRatio(FrameGray(twin.file, twin.seeking),
                                                twin.threshold, twin.trim),
                           depth |-> SampleDepth(t, twin.duration, twin.depth)]
            IN  TwinLoop([twin EXCEPT
                            !.results = Append(proc.results, sample),
                            !.currentTime = Add(t, twin.timeInterval)])
    /\ UNCHANGED pageVars

\* video.onseeked of the second invocation; fails is whether drawing or
\* analysing the frame throws
TwinOnSeeked(fails) ==
    /\ twin.pc = "seeking"
    /\ IF fails
       THEN twin' = [twin EXCEPT !.pc = "threw"]
       ELSE LET t      == twin.currentTime
                sample == [ratio |-> WhiteRatio(FrameGray(twin.file, twin.seeking),
                                                twin.threshold, twin.trim),
                           depth |-> SampleDepth(t, twin.duration, twin.depth)]
            IN  TwinLoop([twin EXCEPT
                            !.results = Append(twin.results, sample),
                            !.currentTime = Add(t, twin.timeInterval)])
    /\ UNCHANGED pageVars

\* video.onerror of the second invocation
TwinOnError ==
    /\ twin.pc \in {"loading", "seeking"}
    /\ twin' = [twin EXCEPT !.pc = "failed", !.promise = "rejected",
                            !.error = "error:load", !.url = "revoked"]
    /\ UNCHANGED pageVars

\* the videos and settings of the two invocations
PairFiles == {1, 2, 5}
PairDepths == {Num(6), Num(1)}
PairScales == {Num(1), Num(5)}
PairTrims == {Num(0), Num(5)}

\* the page with OpenCV ready, a video selected and the settings entered;
\* then the process button once, the call of the second caller, and the
\* media events of the two video elements in any order
PairInit ==
    /\ isCvReady = TRUE
    /\ videoFile \in PairFiles
    /\ status = "selected"
    /\ progress = Num(0)
    /\ isProcessing = FALSE
    /\ results = <<>>
    /\ videoDuration = Num(0)
    /\ depth \in PairDepths
    /\ scale \in PairScales
    /\ threshold \in Thresholds
    /\ trim \in PairTrims
    /\ viewerMode = "depth"
    /\ viewerValue = Num(0)
    /\ canvases = BlankCanvases
    /\ inputs = MaxInputs - 1
    /\ proc = NoProc
    /\ procLog = <<>>
    /\ view = NoView
    /\ viewLog = <<>>
    /\ twin = NoProc

PairNext ==
    \/ \E ctxOk \in BOOLEAN : handleProcessVideo(ctxOk)
    \/ ProcOnLoadedMetadata
    \/ \E fails \in BOOLEAN : ProcOnSeeked(fails)
    \/ ProcOnError
    \/ \E ctxOk \in BOOLEAN : TwinStart(ctxOk)
    \/ TwinOnLoadedMetadata
    \/ \E fails \in BOOLEAN : TwinOnSeeked(fails)
    \/ TwinOnError

PairSpec == PairInit /\ [][PairNext]_vars

(***************************************************************************)
(* The claims                                                              *)
(***************************************************************************)
Settled(p) == p.promise \in {"resolved", "rejected"}

\* the values given to onProgress, in order
ProgressValues(lg) ==
    LET ps == SelectSeq(lg, LAMBDA e : e.ev = "progress")
    IN  [i \in 1..Len(ps) |-> ps[i].v]

\* C1: every invocation of processVideoInBrowser and of getFrameForDisplay
\* that has ended, resolved or rejected, has released its object URL
C1_UrlReleasedOnEveryExit ==
    /\ Settled(proc) => proc.url = "revoked"
    /\ Settled(view) => view.url = "revoked"

\* the run waits for an event of its video element: loadedmetadata or error
\* while the file loads, seeked or error while it seeks
AwaitsDecoder(p) == p.pc \in {"loading", "seeking"}

\* C2: a run of processVideoInBrowser that has started does not stay pending
\* for ever: while it is neither resolved nor rejected it waits for an event
\* of its video element, which the decoder delivers
C2_PendingRunAwaitsDecoder ==
    proc.promise = "pending" => AwaitsDecoder(proc)

\* a run has failed while sampling and the page shows no result
C3_FailedWithPartialSeries ==
    /\ proc.promise = "rejected"
    /\ Len(proc.results) > 0
    /\ results = <<>>
    /\ ~isProcessing

\* what the page holds of a run: nothing unless the run resolved, and then
\* the whole series, the loop having run to its end
OnlyWholeSeriesDelivered ==
    /\ proc.promise = "resolved" => proc.error = "none"
    /\ proc.promise = "rejected" => proc.error # "none" /\ results = <<>>
    /\ results # <<>> => /\ proc.promise = "resolved"
                         /\ results = proc.results
                         /\ ~Lt(proc.currentTime, proc.duration)

\* a run that has failed stays as it ended until the user clicks the process
\* button again
NoAutomaticRetry ==
    (proc.promise = "rejected" /\ proc' # proc) =>
        (inputs' = inputs + 1 /\ proc'.pc \in {"loading", "done"}
         /\ procLog' = <<>>)

\* C3: a run ends in a result or in an error, never both; when it ends in an
\* error the page receives no sample of the series built so far and its
\* results stay empty; nothing starts another run but a click
C3_NoPartialResult ==
    [](OnlyWholeSeriesDelivered) /\ [][NoAutomaticRetry]_vars

C5_ResolvedAfterSamples ==
    /\ proc.promise = "resolved"
    /\ Len(proc.results) >= 3
    /\ Len(ProgressValues(procLog)) = Len(proc.results) + 2

\* C5: the values a resolved run has given to onProgress start with 0, end
\* with 1 and never decrease
C5_ProgressZeroToOne ==
    proc.promise = "resolved" =>
        LET ps == ProgressValues(procLog) IN
        /\ Len(ps) >= 2
        /\ NumEq(ps[1], Num(0))
        /\ NumEq(ps[Len(ps)], Num(1))
        /\ \A i \in 1..(Len(ps) - 1) : Le(ps[i], ps[i + 1])

\* the run was given a positive duration, total depth and scale
PositiveConfig(p) ==
    /\ Gt(p.duration, Num(0)) /\ IsFinite(p.duration)
    /\ Gt(p.depth, Num(0)) /\ IsFinite(p.depth)
    /\ Gt(p.scale, Num(0)) /\ IsFinite(p.scale)

\* n is the least integer that is not below x
IsCeil(n, x) == Le(x, Num(n)) /\ Lt(Num(n - 1), x)

\* C6: a resolved run of a positive configuration holds ceil(totalDepth/scale)
\* samples
C6_SampleCountIsCeil ==
    (proc.promise = "resolved" /\ PositiveConfig(proc)) =>
        IsCeil(Len(proc.results), Div(proc.depth, proc.scale))

\* C7: in the series of a resolved run of a positive configuration the
\* depths never decrease, lie in [0, totalDepth), and the k-th sample
\* (k from 0) has depth k * scale
C7_DepthsStepByScale ==
    (proc.promise = "resolved" /\ PositiveConfig(proc)) =>
        LET rs == proc.results IN
        /\ \A i \in 1..(Len(rs) - 1) : Le(rs[i].depth, rs[i + 1].depth)
        /\ \A i \in 1..Len(rs) :
               /\ Ge(rs[i].depth, Num(0))
               /\ Lt(rs[i].depth, proc.depth)
               /\ NumEq(rs[i].depth, Mul(Num(i - 1), proc.scale))

\* the configuration the specification calls invalid: a sample count or a
\* time interval that is not positive, a scale of 0, a duration of 0
InvalidConfig(p) ==
    LET totalSamples == Div(p.depth, p.scale)
        timeInterval == Div(p.duration, totalSamples)
    IN  \/ Le(totalSamples, Num(0))
        \/ Le(timeInterval, Num(0))
        \/ IsZero(p.scale)
        \/ IsZero(p.duration)

\* C8: a run of an invalid configuration fails with a configuration error:
\* it never gets past the checks to the sampling loop and never produces a
\* result
C8_InvalidConfigFails ==
    (proc.pc \in {"seeking", "threw"} \/ proc.promise = "resolved") =>
        ~InvalidConfig(proc)

\* a run has failed with a configuration error
C9_ConfigErrorRaised ==
    /\ proc.promise = "rejected"
    /\ proc.error \in {"error:samples", "error:interval"}
    /\ status = proc.error

\* C9: a run that has failed with a configuration error has issued no seek,
\* appended no sample and has not called onProgress
C9_ConfigErrorBeforeAnyFrame ==
    proc.error \in {"error:samples", "error:interval"} =>
        procLog = <<>> /\ proc.results = <<>>

\* the time lies in [0, duration]
InRange(t, duration) == Ge(t, Num(0)) /\ Le(t, duration)

\* C10: a click on the show button resolves the time by the mode, and ends
\* with the out-of-range error, no video opened and no seek, exactly when
\* that time lies outside [0, duration]; otherwise the capture is given
\* that time
C10_OutOfRangeExactlyOutside ==
    [][(\E ctxOk \in BOOLEAN : handleShowImage(ctxOk)) =>
           LET t == TargetTime(viewerMode, viewerValue, depth, scale,
                               videoDuration)
           IN  IF InRange(t, videoDuration)
               THEN status' # "error:range" /\ view'.url = "live"
                    /\ view'.time = t
               ELSE status' = "error:range" /\ view' = view
                    /\ viewLog' = viewLog]_vars

\* the pixels of gray that lie above thresh
ForegroundCount(gray, thresh) ==
    Cardinality({i \in DOMAIN gray : Gt(Num(gray[i]), thresh)})

\* a run with a trim has recorded a ratio above 1
C11_RatioAboveOne ==
    /\ ~IsZero(proc.trim)
    /\ \E i \in 1..Len(proc.results) : Gt(proc.results[i].ratio, Num(1))

\* C11: every sample a run appends records (foregroundCount + trim) /
\* (width * height) of the frame at the position sought, with the threshold
\* and the trim the run was given and without clamping, and 0 for a frame of
\* no pixels; with a trim of 0 the ratio lies in [0, 1]; the samples before
\* it stay as they are
C11_RatioIsCountPlusTrimOverTotal ==
    [][Len(proc'.results) > Len(proc.results) =>
           LET gray  == FrameGray(proc.file, proc.seeking)
               total == Len(gray)
               count == ForegroundCount(gray, proc.threshold)
               ratio == proc'.results[Len(proc'.results)].ratio
           IN  /\ Len(proc'.results) = Len(proc.results) + 1
               /\ SubSeq(proc'.results, 1, Len(proc.results)) = proc.results
               /\ ratio = IF total = 0 THEN Num(0)
                           ELSE Div(Add(Num(count), proc.trim), Num(total))
               /\ IsZero(proc.trim) => Ge(ratio, Num(0)) /\ Le(ratio, Num(1))]_vars

\* the two invocations were given the same video and settings
SameArguments(p, q) ==
    /\ p.file = q.file /\ p.depth = q.depth /\ p.scale = q.scale
    /\ p.threshold = q.threshold /\ p.trim = q.trim

\* two invocations with the same arguments have both resolved, each with
\* two samples or more, after their seeks were answered in turns
C12_BothResolved ==
    /\ proc.promise = "resolved" /\ twin.promise = "resolved"
    /\ SameArguments(proc, twin)
    /\ Len(proc.results) >= 2 /\ Len(twin.results) >= 2

\* C12: two runs on the same video with the same settings that both resolve
\* return the same series, in whatever order their media events arrived
C12_SameSeries ==
    (proc.promise = "resolved" /\ twin.promise = "resolved"
       /\ SameArguments(proc, twin)) =>
        /\ proc.results = twin.results
        /\ proc.duration = twin.duration

\* what the series run leaves on the page
seriesVars == <<results, videoDuration, progress, isProcessing>>

\* a capture has resolved and its frame is shown beside the results
C13_FrameShown ==
    /\ view.promise = "resolved"
    /\ status = "shown"
    /\ results # <<>>
    /\ canvases # BlankCanvases

\* C13: no step of a viewer capture (the click that starts it or ends out
\* of range, and the events of its video that seek, resolve or reject it)
\* changes the results, the stored duration, the progress or isProcessing
C13_CaptureLeavesSeries ==
    [][(view' # view \/ viewLog' # viewLog \/ status' = "error:range") =>
           UNCHANGED seriesVars]_vars

\* the positions of the calls of one kind (seek, sample) in a record of
\* calls, in order
TimesOf(kind, lg) ==
    LET es == SelectSeq(lg, LAMBDA e : e.ev = kind)
    IN  [i \in 1..Len(es) |-> es[i].v]

\* the calls of a run in the order the loop makes them: a seek follows a
\* report of progress, a sample follows the seek to its own position, a
\* report of progress follows a sample (or, the last one, the report before
\* it); the positions increase from sample to sample
SeeksInTurn(lg) ==
    /\ \A j \in 1..Len(lg) :
          CASE lg[j].ev = "seek" ->
                   j > 1 /\ lg[j - 1].ev = "progress"
            [] lg[j].ev = "sample" ->
                   j > 1 /\ lg[j - 1].ev = "seek" /\ lg[j - 1].v = lg[j].v
            [] OTHER ->
                   j = 1 \/ lg[j - 1].ev = "sample" \/ j = Len(lg)
    /\ LET ts == TimesOf("sample", lg)
       IN  \A i \in 1..(Len(ts) - 1) : Lt(ts[i], ts[i + 1])

\* the seeks issued and not yet answered by a sample
Outstanding(lg) == Len(TimesOf("seek", lg)) - Len(TimesOf("sample", lg))

\* a run is waiting for its third seek or a later one
C14_ThirdSeekOutstanding ==
    /\ proc.pc = "seeking"
    /\ Len(proc.results) >= 2
    /\ Outstanding(procLog) = 1

\* C14: a run has one seek outstanding while it waits for seeked and none
\* otherwise apart from a seek that failed; a sample is appended only by
\* the seeked event of the seek to its position; a seek is issued only
\* after the sample before it was appended and its progress reported; the
\* samples are in increasing order of their positions
C14_SeeksInTurn ==
    /\ [](/\ SeeksInTurn(procLog)
          /\ Outstanding(procLog) \in {0, 1}
          /\ proc.pc = "seeking" => Outstanding(procLog) = 1
          /\ proc.pc \in {"none", "loading", "done"} => Outstanding(procLog) = 0
          /\ Len(TimesOf("sample", procLog)) = Len(proc.results))
    /\ [][Len(proc'.results) > Len(proc.results) =>
             /\ proc.pc = "seeking"
             /\ Len(proc'.results) = Len(proc.results) + 1
             /\ TimesOf("sample", procLog') =
                    Append(TimesOf("sample", procLog), proc.seeking)]_vars

\* the frame source of an invocation: its object URL and the position of
\* its video element
Source(p) == [url |-> p.url, seeking |-> p.seeking]

\* a capture and a series run are both waiting for a seek, each with its
\* own live object URL, at different positions
C15_CaptureAndRunOverlap ==
    /\ view.pc = "seeking" /\ view.url = "live"
    /\ proc.pc = "seeking" /\ proc.url = "live"
    /\ Len(proc.results) > 0
    /\ view.seeking # proc.seeking

\* C15: invocations that overlap have frame sources of their own: no step
\* changes the object URL or the position of more than one of them, so a
\* seek or a release by one leaves the sources of the others as they were
C15_SourcesNotShared ==
    [][/\ Source(proc') = Source(proc) \/ Source(view') = Source(view)
       /\ Source(proc') = Source(proc) \/ Source(twin') = Source(twin)
       /\ Source(view') = Source(view) \/ Source(twin') = Source(twin)]_vars

\* a run has resolved after two samples or more and has reported a progress
\* strictly between 0 and 1
C16_ResolvedWithProgressBetween ==
    /\ proc.promise = "resolved"
    /\ Len(proc.results) >= 2
    /\ \E j \in 1..Len(procLog) :
          /\ procLog[j].ev = "progress"
          /\ Gt(procLog[j].v, Num(0)) /\ Lt(procLog[j].v, Num(1))

\* C16: a resolved run of N samples has called onProgress N + 2 times: with
\* 0 before the first seek, after the i-th sample and before the next seek
\* with t_i / duration, and with 1 after the last sample
C16_ProgressCalls ==
    proc.promise = "resolved" =>
        LET n == Len(proc.results) IN
        /\ Len(ProgressValues(procLog)) = n + 2
        /\ Len(procLog) = 3 * n + 2
        /\ procLog[1] = Ev("progress", Num(0))
        /\ procLog[3 * n + 2] = Ev("progress", Num(1))
        /\ \A i \in 1..n :
               /\ procLog[3 * i - 1].ev = "seek"
               /\ procLog[3 * i].ev = "sample"
               /\ procLog[3 * i + 1] =
                      Ev("progress", Div(procLog[3 * i].v, proc.duration))

\* the pixels of gray that are thresh or above
CountAtLeast(gray, thresh) ==
    Cardinality({i \in DOMAIN gray : Ge(Num(gray[i]), thresh)})

\* C17: a pixel is foreground exactly when its gray level is the threshold
\* or above: every sample appended records (the number of such pixels +
\* trim) / (width * height), and in every binarized image the viewer is
\* given the white pixels are exactly those
C17_ForegroundAtOrAboveThreshold ==
    /\ [][Len(proc'.results) > Len(proc.results) =>
             LET gray  == FrameGray(proc.file, proc.seeking)
                 total == Len(gray)
             IN  proc'.results[Len(proc'.results)].ratio =
                    IF total = 0 THEN Num(0)
                    ELSE Div(Add(Num(CountAtLeast(gray, proc.threshold)),
                                 proc.trim),
                             Num(total))]_vars
    /\ [][(canvases' # canvases /\ canvases' # BlankCanvases) =>
             \A i \in DOMAIN canvases'.original :
                 (canvases'.binarized[i] = 255) <=>
                     Ge(Num(canvases'.original[i]), view.threshold)]_vars

\* the file and the settings a run is started with
runInputs == <<videoFile, depth, scale, threshold, trim>>

\* isProcessing is true exactly while the page's run is neither resolved nor
\* rejected, and outside a run the progress is 0
ProcessingWhileInFlight ==
    /\ isProcessing <=> proc.promise = "pending"
    /\ ~isProcessing => progress = Num(0)

\* a run starts only from a page that is not processing and has a file, and
\* while the page is processing its file and settings stay as they are
OneRunAtATime ==
    /\ (proc'.pc = "loading" /\ proc.pc # "loading") =>
           (~isProcessing /\ videoFile # NoFile /\ isProcessing')
    /\ isProcessing => UNCHANGED runInputs

\* C18: at most one series run is in flight and isProcessing is true exactly
\* while it is; a run starts only when isProcessing is false and a file is
\* selected; the file and the settings do not change while it is true; and
\* isProcessing returns to false with the progress at 0: while it is true
\* the run awaits an event of its video element, which ends or continues it
C18_ProcessingFlag ==
    /\ [](ProcessingWhileInFlight)
    /\ [][OneRunAtATime]_vars
    /\ [](isProcessing => AwaitsDecoder(proc))

\* results are shown for a second video, after a capture on the first
C19_ResultsOfSecondVideo ==
    /\ results # <<>>
    /\ view.file # NoFile /\ view.file # videoFile
    /\ videoDuration = VideoDuration(videoFile)

\* C19: while the results are not empty they and the stored duration are
\* those of the last run, which resolved on the file now selected, so the
\* stored duration is that file's; selecting a file or starting a run
\* empties the results
C19_DurationOfSelectedVideo ==
    /\ [](results # <<>> =>
             /\ proc.promise = "resolved"
             /\ proc.file = videoFile
             /\ videoDuration = proc.duration
             /\ videoDuration = VideoDuration(videoFile))
    /\ [][(videoFile' # videoFile
             \/ (proc'.pc = "loading" /\ proc.pc # "loading")) =>
             results' = <<>>]_vars

\* every seek of the series run goes to a position t with 0 <= t < duration
RunSeeksWithinVideo ==
    \A j \in 1..Len(procLog) :
        procLog[j].ev = "seek" =>
            Ge(procLog[j].v, Num(0)) /\ Lt(procLog[j].v, proc.duration)

\* a capture that has seen the metadata of its video has sought once, to the
\* time it was called with clamped into [0, duration]
CaptureSeeksClamped ==
    IsFinite(view.duration) =>
        /\ Len(viewLog) = 1
        /\ viewLog[1].ev = "seek"
        /\ InRange(viewLog[1].v, view.duration)
        /\ (InRange(view.time, view.duration) => viewLog[1].v = view.time)
        /\ (Lt(view.time, Num(0)) => IsZero(viewLog[1].v))
        /\ (Gt(view.time, view.duration) => viewLog[1].v = view.duration)

\* C20: every seek targets a position within the video: the series run
\* seeks only to t with 0 <= t < duration, and a capture seeks to the time
\* it was called with clamped into [0, duration], whatever that time is
C20_SeeksWithinVideo ==
    RunSeeksWithinVideo /\ CaptureSeeksClamped
====
